---- MODULE Spec2Model ----
(***************************************************************************)
(* Model of nconv (src/src/lib.rs): convert_base, pad_width, group_digits  *)
(* and run.  Strings are sequences of one-character strings; u128 values   *)
(* are little-endian sequences of NumLimbs limbs of 16 bits, so that the   *)
(* 128-bit overflow boundary of the parser is the real one.                *)
(***************************************************************************)
EXTENDS Integers, Sequences, FiniteSets, TLC

(* ------------------------------------------------------------------ *)
(* Characters: `c as u128` is the code point of c.                    *)
(* ------------------------------------------------------------------ *)

\* The printable ASCII characters in code point order, from ' ' (32) to '~' (126).
\* The grave accent (96) cannot be written in a TLA+ string: "grave" holds its place.
Ascii ==
  <<
    " ", "!", "\"", "#", "$", "%", "&", "'", "(", ")", "*", "+", ",", "-", ".", "/",
    "0", "1", "2", "3", "4", "5", "6", "7", "8", "9", ":", ";", "<", "=", ">", "?",
    "@", "A", "B", "C", "D", "E", "F", "G", "H", "I", "J", "K", "L", "M", "N", "O",
    "P", "Q", "R", "S", "T", "U", "V", "W", "X", "Y", "Z", "[", "\\", "]", "^", "_",
    "grave", "a", "b", "c", "d", "e", "f", "g", "h", "i", "j", "k", "l", "m", "n", "o",
    "p", "q", "r", "s", "t", "u", "v", "w", "x", "y", "z", "{", "|", "}", "~" >>

AsciiSet == {Ascii[i] : i \in 1..Len(Ascii)}

OrdTable == [c \in AsciiSet |-> 31 + (CHOOSE i \in 1..Len(Ascii) : Ascii[i] = c)]

\* c as u128 (as a natural number)
Ord(c) == OrdTable[c]

Chr(n) == Ascii[n - 31]

\* char::is_ascii_digit
is_ascii_digit(c) == Ord(c) >= Ord("0") /\ Ord(c) <= Ord("9")

\* char::to_ascii_uppercase
to_ascii_uppercase(c) ==
  IF Ord(c) >= Ord("a") /\ Ord(c) <= Ord("z") THEN Chr(Ord(c) - Ord("a") + Ord("A")) ELSE c

\* str::to_lowercase, on ASCII text
to_lowercase(s) ==
  [i \in 1..Len(s) |->
     IF Ord(s[i]) >= Ord("A") /\ Ord(s[i]) <= Ord("Z")
     THEN Chr(Ord(s[i]) - Ord("A") + Ord("a")) ELSE s[i]]

\* str::starts_with
starts_with(s, p) == Len(s) >= Len(p) /\ SubSeq(s, 1, Len(p)) = p

\* iter.rev().collect(): the second half reversed, then the first half reversed
RECURSIVE Reverse(_)
Reverse(s) ==
  IF Len(s) <= 1 THEN s
  ELSE LET mid == Len(s) \div 2 IN
       Reverse(SubSeq(s, mid + 1, Len(s))) \o Reverse(SubSeq(s, 1, mid))

\* str::repeat, for a one-character string
RECURSIVE repeat(_, _)
repeat(c, n) ==
  IF n = 0 THEN <<>>
  ELSE IF n = 1 THEN <<c>>
  ELSE repeat(c, n \div 2) \o repeat(c, n - n \div 2)

(* ------------------------------------------------------------------ *)
(* u128 arithmetic on limbs.                                          *)
(* ------------------------------------------------------------------ *)

U128Bits == 128
LimbBase == 2^16
NumLimbs == U128Bits \div 16

\* n as u128, for a natural n below 2^31
U128(n) == <<n % LimbBase, n \div LimbBase>> \o repeat(0, NumLimbs - 2)

None == [some |-> FALSE, val |-> <<>>]
Some(v) == [some |-> TRUE, val |-> v]

RECURSIVE add_limbs(_, _, _, _)
add_limbs(a, b, i, carry) ==
  IF i > NumLimbs THEN [val |-> <<>>, carry |-> carry]
  ELSE LET s == a[i] + b[i] + carry
           r == add_limbs(a, b, i + 1, s \div LimbBase)
       IN  [val |-> <<s % LimbBase>> \o r.val, carry |-> r.carry]

\* u128::overflowing_add: the wrapped sum and whether it wrapped
overflowing_add(a, b) ==
  LET r == add_limbs(a, b, 1, 0) IN [val |-> r.val, overflow |-> r.carry # 0]

RECURSIVE sub_limbs(_, _, _, _)
sub_limbs(a, b, i, borrow) ==
  IF i > NumLimbs THEN [val |-> <<>>, borrow |-> borrow]
  ELSE LET s == a[i] - b[i] - borrow
           r == sub_limbs(a, b, i + 1, IF s < 0 THEN 1 ELSE 0)
       IN  [val |-> <<(s + LimbBase) % LimbBase>> \o r.val, borrow |-> r.borrow]

\* u128::overflowing_sub
overflowing_sub(a, b) ==
  LET r == sub_limbs(a, b, 1, 0) IN [val |-> r.val, overflow |-> r.borrow # 0]

RECURSIVE mul_limbs(_, _, _, _)
mul_limbs(a, m, i, carry) ==
  IF i > NumLimbs THEN [val |-> <<>>, carry |-> carry]
  ELSE LET p == a[i] * m + carry
           r == mul_limbs(a, m, i + 1, p \div LimbBase)
       IN  [val |-> <<p % LimbBase>> \o r.val, carry |-> r.carry]

\* u128::wrapping_mul, what an unchecked multiplication would give
wrapping_mul(a, m) == Some(mul_limbs(a, m, 1, 0).val)

\* decimal.checked_mul(source_base as u128); the multiplier is a radix, below LimbBase
checked_mul(a, m) ==
  LET r == mul_limbs(a, m, 1, 0) IN IF r.carry # 0 THEN None ELSE Some(r.val)

\* decimal.checked_add(digit)
checked_add(a, b) ==
  LET r == overflowing_add(a, b) IN IF r.overflow THEN None ELSE Some(r.val)

\* a >= b on u128
RECURSIVE ge_from(_, _, _)
ge_from(a, b, i) ==
  IF i = 0 THEN TRUE
  ELSE IF a[i] # b[i] THEN a[i] > b[i]
  ELSE ge_from(a, b, i - 1)

u128_ge(a, b) == ge_from(a, b, NumLimbs)

\* (num / m, num % m) for a radix m, by long division from the top limb
RECURSIVE divmod_limbs(_, _, _, _)
divmod_limbs(a, m, i, rem) ==
  IF i = 0 THEN [quot |-> <<>>, rem |-> rem]
  ELSE LET cur == rem * LimbBase + a[i]
           r == divmod_limbs(a, m, i - 1, cur % m)
       IN  [quot |-> Append(r.quot, cur \div m), rem |-> r.rem]

u128_divmod(a, m) == divmod_limbs(a, m, NumLimbs, 0)

(* ------------------------------------------------------------------ *)
(* Types of the library.                                              *)
(* ------------------------------------------------------------------ *)

\* enum NumSystem: each variant's discriminant is its radix
Bin == 2
Oct == 8
Dec == 10
Hex == 16
NumSystem == {Bin, Oct, Dec, Hex}

\* Result<String, ConversionError>, and the abort of a build with overflow checks
Ok(s) == [tag |-> "Ok", val |-> s]
InvalidDigit(c) == [tag |-> "InvalidDigit", val |-> <<c>>]
NumberOverflow == [tag |-> "NumberOverflow", val |-> <<>>]
InvalidBase == [tag |-> "InvalidBase", val |-> <<>>]
Panic == [tag |-> "Panic", val |-> <<>>]

\* let digits = "0123456789ABCDEF";
digits == <<"0", "1", "2", "3", "4", "5", "6", "7", "8", "9", "A", "B", "C", "D", "E", "F">>

(* ------------------------------------------------------------------ *)
(* convert_base                                                       *)
(* ------------------------------------------------------------------ *)

\* resolve_prefix with the prefix compared as written, without to_lowercase
resolve_prefix_as_written(num, src) ==
  IF starts_with(num, <<"0", "x">>) /\ src = Hex
    THEN [tag |-> "Ok", num_str |-> SubSeq(num, 3, Len(num)), inferred_src |-> <<Hex>>]
  ELSE IF starts_with(num, <<"0", "o">>) /\ src = Oct
    THEN [tag |-> "Ok", num_str |-> SubSeq(num, 3, Len(num)), inferred_src |-> <<Oct>>]
  ELSE IF starts_with(num, <<"0", "b">>) /\ src = Bin
    THEN [tag |-> "Ok", num_str |-> SubSeq(num, 3, Len(num)), inferred_src |-> <<Bin>>]
  ELSE IF \/ starts_with(num, <<"0", "x">>)
          \/ starts_with(num, <<"0", "o">>)
          \/ starts_with(num, <<"0", "b">>)
    THEN [tag |-> "InvalidBase", num_str |-> <<>>, inferred_src |-> <<>>]
  ELSE [tag |-> "Ok", num_str |-> num, inferred_src |-> <<>>]

\* The match on num.to_lowercase(): the digit string and the inferred source base
\* (an Option, here a sequence of at most one element), or InvalidBase.
resolve_prefix(num, src) ==
  LET s == to_lowercase(num) IN
  IF starts_with(s, <<"0", "x">>) /\ src = Hex
    THEN [tag |-> "Ok", num_str |-> SubSeq(num, 3, Len(num)), inferred_src |-> <<Hex>>]
  ELSE IF starts_with(s, <<"0", "o">>) /\ src = Oct
    THEN [tag |-> "Ok", num_str |-> SubSeq(num, 3, Len(num)), inferred_src |-> <<Oct>>]
  ELSE IF starts_with(s, <<"0", "b">>) /\ src = Bin
    THEN [tag |-> "Ok", num_str |-> SubSeq(num, 3, Len(num)), inferred_src |-> <<Bin>>]
  ELSE IF \/ starts_with(s, <<"0", "x">>)
          \/ starts_with(s, <<"0", "o">>)
          \/ starts_with(s, <<"0", "b">>)
    THEN [tag |-> "InvalidBase", num_str |-> <<>>, inferred_src |-> <<>>]
  ELSE [tag |-> "Ok", num_str |-> num, inferred_src |-> <<>>]

\* inferred_src.unwrap_or(src)
unwrap_or(opt, dflt) == IF opt = <<>> THEN dflt ELSE opt[1]

\* a - b on u128: a build with overflow checks aborts where the difference is
\* negative, a build without them wraps
u128_sub(a, b, overflow_checks) ==
  LET r == overflowing_sub(a, b) IN
  IF r.overflow /\ overflow_checks THEN [tag |-> "Panic", val |-> <<>>]
  ELSE [tag |-> "Ok", val |-> r.val]

\* a + b on u128, likewise
u128_add(a, b, overflow_checks) ==
  LET r == overflowing_add(a, b) IN
  IF r.overflow /\ overflow_checks THEN [tag |-> "Panic", val |-> <<>>]
  ELSE [tag |-> "Ok", val |-> r.val]

\* The value of one character: Ok with the digit, InvalidDigit(c), or the abort.
digit_of(c, source_base, overflow_checks) ==
  IF is_ascii_digit(c)
  THEN LET d == u128_sub(U128(Ord(c)), U128(Ord("0")), overflow_checks) IN
       IF d.tag # "Ok" THEN d
       ELSE IF u128_ge(d.val, U128(source_base)) THEN InvalidDigit(c)
       ELSE d
  ELSE LET t == u128_sub(U128(Ord(to_ascii_uppercase(c))), U128(Ord("A")), overflow_checks) IN
       IF t.tag # "Ok" THEN t
       ELSE LET d == u128_add(t.val, U128(10), overflow_checks) IN
            IF d.tag # "Ok" THEN d
            ELSE IF u128_ge(d.val, U128(source_base)) THEN InvalidDigit(c)
            ELSE d

\* parse_step with the accumulation made before the digit check
parse_step_accumulate_first(decimal, c, source_base, overflow_checks) ==
  LET m == checked_mul(decimal, source_base) IN
  IF ~m.some THEN NumberOverflow
  ELSE LET digit == digit_of(c, source_base, overflow_checks) IN
       IF digit.tag # "Ok" THEN digit
       ELSE LET a == checked_add(m.val, digit.val) IN
            IF ~a.some THEN NumberOverflow
            ELSE [tag |-> "Ok", val |-> a.val]

\* One pass of `for c in num_str.chars()`: the digit check, then the checked
\* multiply and the checked add.  Ok with the new accumulator, or the failure.
parse_step(decimal, c, source_base, overflow_checks) ==
  LET digit == digit_of(c, source_base, overflow_checks) IN
  IF digit.tag # "Ok" THEN digit
  ELSE LET m == checked_mul(decimal, source_base) IN
       IF ~m.some THEN NumberOverflow
       ELSE LET a == checked_add(m.val, digit.val) IN
            IF ~a.some THEN NumberOverflow
            ELSE [tag |-> "Ok", val |-> a.val]

\* for c in num_str.chars() { ... } over the characters lo..hi, in order: acc is
\* Ok with the accumulator so far, or the failure that ended the loop.  The range
\* is walked as its left half, then its right half, which visits the characters
\* one by one from the left and keeps the evaluation shallow.
RECURSIVE parse_digits(_, _, _, _, _, _)
parse_digits(num_str, lo, hi, acc, source_base, overflow_checks) ==
  IF acc.tag # "Ok" \/ lo > hi THEN acc
  ELSE IF lo = hi THEN parse_step(acc.val, num_str[lo], source_base, overflow_checks)
  ELSE LET mid == (lo + hi) \div 2 IN
       parse_digits(num_str, mid + 1, hi,
                    parse_digits(num_str, lo, mid, acc, source_base, overflow_checks),
                    source_base, overflow_checks)

\* One pass of `while num > 0`: push digits[num % target], then num /= target
render_step(st, target) ==
  LET qr == u128_divmod(st.num, target) IN
  IF qr.rem + 1 > Len(digits) THEN [tag |-> "InvalidBase", num |-> st.num, result |-> st.result]
  ELSE [tag |-> "Ok", num |-> qr.quot, result |-> Append(st.result, digits[qr.rem + 1])]

\* while num > 0 { ... }, at most n passes: the first half of them, then the rest
RECURSIVE render_digits(_, _, _)
render_digits(st, target, n) ==
  IF n = 0 \/ st.tag # "Ok" \/ st.num = U128(0) THEN st
  ELSE IF n = 1 THEN render_step(st, target)
  ELSE render_digits(render_digits(st, target, n \div 2), target, n - n \div 2)

\* render without the final reversal: least significant digit first
render_unreversed(decimal, target) ==
  IF decimal = U128(0) THEN Ok(<<"0">>)
  ELSE LET r == render_digits([tag |-> "Ok", num |-> decimal, result |-> <<>>],
                              target, U128Bits)
       IN  IF r.tag # "Ok" THEN InvalidBase ELSE Ok(r.result)

\* render without the early return for zero: the empty string for 0
render_zero_empty(decimal, target) ==
  LET r == render_digits([tag |-> "Ok", num |-> decimal, result |-> <<>>],
                         target, U128Bits)
  IN  IF r.tag # "Ok" THEN InvalidBase ELSE Ok(Reverse(r.result))

\* The rendering of a value: "0" for zero, else the collected digits reversed.
\* Every pass at least halves num, so U128Bits passes bring it to 0; a loop still
\* running after them is reported as Diverged.
render(decimal, target) ==
  IF decimal = U128(0) THEN Ok(<<"0">>)
  ELSE LET r == render_digits([tag |-> "Ok", num |-> decimal, result |-> <<>>],
                              target, U128Bits)
       IN  IF r.tag # "Ok" THEN InvalidBase
           ELSE IF r.num # U128(0) THEN [tag |-> "Diverged", val |-> <<>>]
           ELSE Ok(Reverse(r.result))

convert_base(num, src, target, overflow_checks) ==
  LET p == resolve_prefix(num, src) IN
  IF p.tag # "Ok" THEN InvalidBase
  ELSE LET source_base == unwrap_or(p.inferred_src, src)
           parsed == parse_digits(p.num_str, 1, Len(p.num_str), [tag |-> "Ok", val |-> U128(0)],
                                   source_base, overflow_checks)
       IN  IF parsed.tag # "Ok" THEN parsed
           ELSE render(parsed.val, target)

(* ------------------------------------------------------------------ *)
(* group_digits, pad_width, run                                       *)
(* ------------------------------------------------------------------ *)

\* String::insert(idx, ch), idx counted from 0
insert(s, idx, ch) == SubSeq(s, 1, idx) \o <<ch>> \o SubSeq(s, idx + 1, Len(s))

\* One pass of the loop: result.insert(i, ' '); i += grouping as usize + 1;
group_step(st, grouping) ==
  [result |-> insert(st.result, st.i, " "), i |-> st.i + grouping + 1]

\* while i < result.len() { ... }, at most n passes: the first half of them, then the rest
RECURSIVE group_loop(_, _, _)
group_loop(st, grouping, n) ==
  IF n = 0 \/ ~(st.i < Len(st.result)) THEN st
  ELSE IF n = 1 THEN group_step(st, grouping)
  ELSE group_loop(group_loop(st, grouping, n \div 2), grouping, n - n \div 2)

\* group_digits without the two reversals: groups counted from the left
group_digits_from_left(num, grouping) ==
  IF grouping = 0 THEN num
  ELSE group_loop([result |-> num, i |-> grouping], grouping, Len(num)).result

\* Every pass moves i past at least one more character of num, so Len(num) passes
\* end the loop; a loop still running after them is reported as its own result
\* (the text "diverged"), which no claim accepts.
group_digits(num, grouping) ==
  IF grouping = 0 THEN num
  ELSE LET st == group_loop([result |-> Reverse(num), i |-> grouping], grouping, Len(num))
       IN  IF st.i < Len(st.result) THEN <<"diverged">> ELSE Reverse(st.result)

\* pad_width with width zeros prepended, not width - num.len()
pad_width_whole_width(num, width) ==
  IF Len(num) < width THEN repeat("0", width) \o num ELSE num

pad_width(num, width) ==
  IF Len(num) < width THEN repeat("0", width - Len(num)) \o num ELSE num

\* run with the grouping made before the padding
run_group_first(config, overflow_checks) ==
  LET converted == convert_base(config.number, config.src_base, config.tgt_base,
                                overflow_checks)
  IN  IF converted.tag # "Ok" THEN [ret |-> converted, stdout |-> <<>>]
      ELSE LET grouped == group_digits(converted.val, config.grouping)
               padded == pad_width(grouped, config.width)
           IN  [ret |-> Ok(<<>>), stdout |-> <<padded>>]

\* run: what it returns and the lines it prints
run(config, overflow_checks) ==
  LET converted == convert_base(config.number, config.src_base, config.tgt_base,
                                overflow_checks)
  IN  IF converted.tag # "Ok" THEN [ret |-> converted, stdout |-> <<>>]
      ELSE LET padded == pad_width(converted.val, config.width)
               grouped == group_digits(padded, config.grouping)
           IN  [ret |-> Ok(<<>>), stdout |-> <<grouped>>]

(* ------------------------------------------------------------------ *)
(* The inputs the calls are made with.                                *)
(* ------------------------------------------------------------------ *)

MaxLen == 2
MaxZeros == 2
MaxStrLen == 7
MaxWidth == 8
MaxGroup == 4

\* All sequences over alphabet of length at most n
RECURSIVE SeqsUpTo(_, _)
SeqsUpTo(alphabet, n) ==
  IF n = 0 THEN {<<>>}
  ELSE LET shorter == SeqsUpTo(alphabet, n - 1) IN
       shorter \cup {Append(t, c) : t \in shorter, c \in alphabet}

Prefixes ==
  {<<>>, <<"0", "x">>, <<"0", "X">>, <<"0", "o">>, <<"0", "O">>, <<"0", "b">>, <<"0", "B">>}

\* Digits of every radix, a digit no radix has, and characters below 'A'
BodyAlphabet == {"0", "1", "2", "9", "b", "F", "G", ":"}

ShortBodies == SeqsUpTo(BodyAlphabet, MaxLen)

\* Every printable character on its own
SingleChars == {<<Ascii[i]>> : i \in 1..Len(Ascii)} \ {<<"grave">>}

\* The literals of the library's tests and documentation
Examples ==
  { <<"0", "x", "F", "F">>, <<"0", "b", "1", "0", "1", "0">>, <<"0", "o", "7", "7">>,
    <<"0", "b", "1", "0">>, <<"F", "F">>, <<"1", "0", "1", "0">>, <<"7", "7">>,
    <<"0", "x", "G", "G">>, <<"0", "b", "1", "2">>, <<"0", "o", "8", "9">>,
    <<"0", "x", "0">>, <<"0", "b", "0">>, <<"0", "o", "0">>, <<"2", "5", "5">>,
    <<"0", "x", "0", "b", "1">>, <<"0", "0", "b", "1">>, <<"0", "x", "f", "f">> }

\* 2^128 - 1 in each radix, and its neighbours
HexMax == repeat("F", U128Bits \div 4)
HexMaxLower == repeat("f", U128Bits \div 4)
HexOver == <<"1">> \o repeat("0", U128Bits \div 4)
HexHalf == <<"1">> \o repeat("0", U128Bits \div 8)
BinMax == repeat("1", U128Bits)
BinOver == <<"1">> \o repeat("0", U128Bits)
OctMax == <<"3">> \o repeat("7", U128Bits \div 3)
OctOver == <<"4">> \o repeat("0", U128Bits \div 3)
DecMax ==
  << "3", "4", "0", "2", "8", "2", "3", "6", "6", "9", "2", "0", "9", "3", "8", "4", "6", "3", "4", "6",
     "3", "3", "7", "4", "6", "0", "7", "4", "3", "1", "7", "6", "8", "2", "1", "1", "4", "5", "5" >>
DecFront == SubSeq(DecMax, 1, Len(DecMax) - 1)
DecOver == DecFront \o <<"6">>
DecBelow == DecFront \o <<"0">>
DecAbove == DecFront \o <<"9">>
DecTimesTen == DecMax \o <<"0">>
DecPower == <<"1">> \o repeat("0", Len(DecMax) - 1)

LongBodies ==
  { HexMax, HexMaxLower, HexOver, HexHalf, BinMax, BinOver, OctMax, OctOver,
    DecMax, DecOver, DecBelow, DecAbove, DecTimesTen, DecPower }

Zeros == {<<>>, repeat("0", MaxZeros)}

\* A long body after a prefix and leading zeros, or before an illegal digit
LongInputs ==
  {p \o z \o b : p \in {<<>>, <<"0", "x">>, <<"0", "o">>, <<"0", "b">>},
                 z \in Zeros, b \in LongBodies}
    \cup {b \o <<"G">> : b \in LongBodies}

NumInputs ==
  {p \o b : p \in Prefixes, b \in ShortBodies \cup SingleChars} \cup Examples \cup LongInputs

\* The strings pad_width and group_digits are called with
StrInputs ==
  SeqsUpTo({"0", "1"}, MaxStrLen)
    \cup { <<"1", "2", "3", "4", "5", "6", "7">>, <<"1", "2", "3", "4", "5", "6">>,
           <<"4", "2">>, <<"1", "2", "3", "4">> }

\* The numbers run is called with
RunNumbers ==
  { <<"0", "x", "F", "F">>, <<"2", "5", "5">>, <<"1", "0", "1", "0">>, <<"0", "b", "1", "2">>,
    <<"0", "b", "1", "0">>, <<>>, <<"0">>, <<"@">>, HexHalf }

\* The widths run is called with
RunWidths == {0, 4, MaxWidth}

(* ------------------------------------------------------------------ *)
(* The state machine: one call of the library per behaviour, and the  *)
(* caller feeding a result back in.                                   *)
(* ------------------------------------------------------------------ *)

VARIABLES
  call,             \* the function called last, or "none"
  number,           \* its string argument
  src_base,         \* the source and target radix of the call
  tgt_base,
  width,            \* the width and grouping of the call
  grouping,
  overflow_checks,  \* whether the build checks integer overflow (debug) or wraps (release)
  ret,              \* what the call returned: Ok(s) for the String of pad_width and group_digits
  stdout,           \* the lines printed
  origin            \* the argument of the call whose result this call was given, if any

vars ==
  <<call, number, src_base, tgt_base, width, grouping, overflow_checks, ret, stdout, origin>>

Init ==
  /\ call = "none"
  /\ number = <<>>
  /\ src_base = Dec
  /\ tgt_base = Dec
  /\ width = 0
  /\ grouping = 0
  /\ overflow_checks = FALSE
  /\ ret = Ok(<<>>)
  /\ stdout = <<>>
  /\ origin = None

\* convert_base(num, src, target)
CallConvertBase ==
  /\ call = "none"
  /\ \E num \in NumInputs, src \in NumSystem, target \in NumSystem, oc \in BOOLEAN :
       /\ call' = "convert_base"
       /\ number' = num
       /\ src_base' = src
       /\ tgt_base' = target
       /\ overflow_checks' = oc
       /\ ret' = convert_base(num, src, target, oc)
  /\ UNCHANGED <<width, grouping, stdout, origin>>

\* convert_base(&result, target, src): the result converted back
ConvertBack ==
  /\ call = "convert_base"
  /\ ret.tag = "Ok"
  /\ ~origin.some
  /\ number' = ret.val
  /\ src_base' = tgt_base
  /\ tgt_base' = src_base
  /\ ret' = convert_base(ret.val, tgt_base, src_base, overflow_checks)
  /\ origin' = Some(number)
  /\ UNCHANGED <<call, width, grouping, overflow_checks, stdout>>

\* pad_width(num, width)
CallPadWidth ==
  /\ call = "none"
  /\ \E num \in StrInputs, w \in 0..MaxWidth :
       /\ call' = "pad_width"
       /\ number' = num
       /\ width' = w
       /\ ret' = Ok(pad_width(num, w))
  /\ UNCHANGED <<src_base, tgt_base, grouping, overflow_checks, stdout, origin>>

\* pad_width(&result, width): the result padded again
PadAgain ==
  /\ call = "pad_width"
  /\ ~origin.some
  /\ number' = ret.val
  /\ ret' = Ok(pad_width(ret.val, width))
  /\ origin' = Some(number)
  /\ UNCHANGED <<call, src_base, tgt_base, width, grouping, overflow_checks, stdout>>

\* group_digits(num, grouping)
CallGroupDigits ==
  /\ call = "none"
  /\ \E num \in StrInputs, g \in 0..MaxGroup :
       /\ call' = "group_digits"
       /\ number' = num
       /\ grouping' = g
       /\ ret' = Ok(group_digits(num, g))
  /\ UNCHANGED <<src_base, tgt_base, width, overflow_checks, stdout, origin>>

\* run(&config)
CallRun ==
  /\ call = "none"
  /\ \E num \in RunNumbers, src \in NumSystem, target \in NumSystem,
        w \in RunWidths, g \in 0..MaxGroup, oc \in BOOLEAN :
       \E r \in {run([number |-> num, src_base |-> src, tgt_base |-> target,
                      grouping |-> g, width |-> w], oc)} :
          /\ call' = "run"
          /\ number' = num
          /\ src_base' = src
          /\ tgt_base' = target
          /\ width' = w
          /\ grouping' = g
          /\ overflow_checks' = oc
          /\ ret' = r.ret
          /\ stdout' = stdout \o r.stdout
  /\ UNCHANGED origin

Next ==
  \/ CallConvertBase
  \/ ConvertBack
  \/ CallPadWidth
  \/ PadAgain
  \/ CallGroupDigits
  \/ CallRun

Spec == Init /\ [][Next]_vars

\* The calls of convert_base alone
NextConvert == CallConvertBase \/ ConvertBack
SpecConvert == Init /\ [][NextConvert]_vars

\* The calls of the two formatting functions alone
NextFormat == CallPadWidth \/ PadAgain \/ CallGroupDigits
SpecFormat == Init /\ [][NextFormat]_vars

\* The calls of run alone
NextRun == CallRun
SpecRun == Init /\ [][NextRun]_vars

(* ------------------------------------------------------------------ *)
(* What the claims are stated with: digit values, prefixes and values *)
(* of digit strings as natural numbers of any size, none of it taken  *)
(* from the operators above.                                          *)
(* ------------------------------------------------------------------ *)

DigitChars == <<"0", "1", "2", "3", "4", "5", "6", "7", "8", "9">>
UpperChars ==
  << "A", "B", "C", "D", "E", "F", "G", "H", "I", "J", "K", "L", "M",
     "N", "O", "P", "Q", "R", "S", "T", "U", "V", "W", "X", "Y", "Z" >>
LowerChars ==
  << "a", "b", "c", "d", "e", "f", "g", "h", "i", "j", "k", "l", "m",
     "n", "o", "p", "q", "r", "s", "t", "u", "v", "w", "x", "y", "z" >>

IndexOf(seq, c) ==
  IF \E i \in 1..Len(seq) : seq[i] = c THEN CHOOSE i \in 1..Len(seq) : seq[i] = c ELSE 0

\* 0-9 for digits, 10 + the letter's index for letters of either case, -1 otherwise
AlnumTable ==
  [c \in AsciiSet |->
     IF IndexOf(DigitChars, c) > 0 THEN IndexOf(DigitChars, c) - 1
     ELSE IF IndexOf(UpperChars, c) > 0 THEN 9 + IndexOf(UpperChars, c)
     ELSE IF IndexOf(LowerChars, c) > 0 THEN 9 + IndexOf(LowerChars, c)
     ELSE -1]

AlnumValue(c) == AlnumTable[c]

IsAlnum(c) == AlnumValue(c) >= 0

IsDigitOf(c, radix) == AlnumValue(c) >= 0 /\ AlnumValue(c) < radix

AllDigitsOf(str, radix) == \A i \in 1..Len(str) : IsDigitOf(str[i], radix)

\* The radix the first two characters announce, 0 when they are no prefix
PrefixRadix(num) ==
  IF Len(num) >= 2 /\ num[1] = "0"
  THEN IF num[2] \in {"x", "X"} THEN 16
       ELSE IF num[2] \in {"o", "O"} THEN 8
       ELSE IF num[2] \in {"b", "B"} THEN 2
       ELSE 0
  ELSE 0

\* A prefix of another radix than the declared one
Mismatch(num, radix) == PrefixRadix(num) # 0 /\ PrefixRadix(num) # radix

\* What follows the prefix of the declared radix, or all of num when it has none
DigitsOf(num, radix) ==
  IF PrefixRadix(num) = radix THEN SubSeq(num, 3, Len(num)) ELSE num

\* Natural numbers of any size: little-endian digits in base 10^4, no leading zero
NatBase == 10^4

RECURSIVE NatMulAddFrom(_, _, _, _)
NatMulAddFrom(x, m, i, carry) ==
  IF i > Len(x) THEN (IF carry = 0 THEN <<>> ELSE <<carry>>)
  ELSE LET p == x[i] * m + carry IN
       <<p % NatBase>> \o NatMulAddFrom(x, m, i + 1, p \div NatBase)

\* x * m + d, for m and d below 100
NatMulAdd(x, m, d) == NatMulAddFrom(x, m, 1, d)

\* The value of the characters lo..hi of str, read after a number of value
\* acc.val; a character that is neither a digit nor a letter leaves no value
RECURSIVE NatFold(_, _, _, _, _)
NatFold(str, lo, hi, acc, radix) ==
  IF ~acc.defined \/ lo > hi THEN acc
  ELSE IF lo = hi
    THEN IF IsAlnum(str[lo])
         THEN [defined |-> TRUE, val |-> NatMulAdd(acc.val, radix, AlnumValue(str[lo]))]
         ELSE [defined |-> FALSE, val |-> <<>>]
  ELSE LET mid == (lo + hi) \div 2 IN
       NatFold(str, mid + 1, hi, NatFold(str, lo, mid, acc, radix), radix)

\* The value of a digit string in a radix
NatValue(str, radix) ==
  NatFold(str, 1, Len(str), [defined |-> TRUE, val |-> <<>>], radix).val

NatLess(a, b) ==
  IF Len(a) # Len(b) THEN Len(a) < Len(b)
  ELSE \E i \in 1..Len(a) : a[i] < b[i] /\ \A j \in (i + 1)..Len(a) : a[j] = b[j]

\* 2^128, written in binary
TwoPow128 == NatValue(<<"1">> \o repeat("0", U128Bits), 2)

\* v <= 2^128 - 1
Fits(v) == NatLess(v, TwoPow128)

\* Most significant digit first, digits 0-9 and uppercase A-F below the radix,
\* no leading zero, "0" for zero
IsCanonical(str, radix) ==
  /\ Len(str) >= 1
  /\ \A i \in 1..Len(str) : IsDigitOf(str[i], radix) /\ IndexOf(LowerChars, str[i]) = 0
  /\ (str[1] = "0" => Len(str) = 1)

\* The position of the leftmost character that is no digit of the radix, 0 if none
FirstBad(str, radix) ==
  IF AllDigitsOf(str, radix) THEN 0
  ELSE CHOOSE i \in 1..Len(str) :
         /\ ~IsDigitOf(str[i], radix)
         /\ \A j \in 1..(i - 1) : IsDigitOf(str[j], radix)

\* The digits before the leftmost character that is no digit of the radix
LegalFront(str, radix) ==
  IF FirstBad(str, radix) = 0 THEN str ELSE SubSeq(str, 1, FirstBad(str, radix) - 1)

IsError(r) == r.tag \in {"InvalidDigit", "NumberOverflow", "InvalidBase"}

(* ------------------------------------------------------------------ *)
(* The claims.                                                        *)
(* ------------------------------------------------------------------ *)

\* C1: convert_base returns InvalidBase if and only if the first two characters
\* of num are, in either letter case, one of the prefixes 0x, 0o, 0b and the
\* radix the prefix stands for differs from the declared source radix, whatever
\* follows the prefix and whatever the target radix.
C1_InvalidBaseIffMismatch ==
  call = "convert_base" =>
    /\ (ret.tag = "InvalidBase") <=> Mismatch(number, src_base)
    /\ ret.tag = "InvalidBase" => ret = InvalidBase

\* C1 happens: a binary prefix under the hexadecimal source radix, before an
\* illegal digit
C1_Witness ==
  /\ call = "convert_base"
  /\ src_base = Hex
  /\ number = <<"0", "B", "G">>
  /\ ret = InvalidBase

\* C2, as claimed: every well-formed input (an optional prefix of the source
\* radix, then one or more digits of that radix) whose value is at most
\* 2^128 - 1 converts to the canonical representation of that value in the
\* target radix.
C2_Original ==
  LET str == DigitsOf(number, src_base) IN
  (/\ call = "convert_base"
   /\ Len(str) >= 1
   /\ AllDigitsOf(str, src_base)
   /\ Fits(NatValue(str, src_base)))
  => /\ ret.tag = "Ok"
     /\ IsCanonical(ret.val, tgt_base)
     /\ NatValue(ret.val, tgt_base) = NatValue(str, src_base)

\* C2, amended: the same, for the well-formed inputs that do not begin with the
\* prefix of another radix (an unprefixed hexadecimal digit string beginning
\* with 0b or 0B is read as carrying the binary prefix).
C2_CanonicalResult ==
  LET str == DigitsOf(number, src_base) IN
  (/\ call = "convert_base"
   /\ ~Mismatch(number, src_base)
   /\ Len(str) >= 1
   /\ AllDigitsOf(str, src_base)
   /\ Fits(NatValue(str, src_base)))
  => /\ ret.tag = "Ok"
     /\ IsCanonical(ret.val, tgt_base)
     /\ NatValue(ret.val, tgt_base) = NatValue(str, src_base)

\* C2 happens: 2^128 - 1 in lowercase hexadecimal, after the prefix and leading
\* zeros, converted to decimal
C2_Witness ==
  /\ call = "convert_base"
  /\ src_base = Hex
  /\ tgt_base = Dec
  /\ number = <<"0", "x">> \o repeat("0", MaxZeros) \o HexMaxLower
  /\ ret = Ok(DecMax)

\* C3: the digit string is scanned from the left and the failure of the leftmost
\* failing character is reported: an overflow among the legal digits before the
\* leftmost illegal alphanumeric character gives NumberOverflow, and otherwise
\* that character gives InvalidDigit carrying it as written, even where
\* accumulating it would overflow.
C3_LeftmostFailure ==
  LET str == DigitsOf(number, src_base)
      bad == FirstBad(str, src_base)
  IN  (call = "convert_base" /\ ~Mismatch(number, src_base)) =>
        IF ~Fits(NatValue(LegalFront(str, src_base), src_base))
        THEN ret = NumberOverflow
        ELSE (bad > 0 /\ IsAlnum(str[bad])) => ret = InvalidDigit(str[bad])

\* C3 happens: an illegal digit after 2^128 - 1, where accumulating any digit
\* would overflow
C3_Witness ==
  /\ call = "convert_base"
  /\ src_base = Hex
  /\ number = HexMax \o <<"G">>
  /\ ret = InvalidDigit("G")

\* C4, as claimed: for every string of legal digits, convert_base fails with
\* NumberOverflow when its value exceeds 2^128 - 1 and succeeds otherwise.
C4_Original ==
  (call = "convert_base" /\ AllDigitsOf(number, src_base)) =>
    IF Fits(NatValue(number, src_base)) THEN ret.tag = "Ok" ELSE ret = NumberOverflow

\* C4, amended: the same, for the strings of legal digits that do not begin
\* with the prefix of another radix (hexadecimal digit strings beginning with
\* 0b or 0B fail with InvalidBase).
C4_OverflowExactly ==
  (call = "convert_base" /\ AllDigitsOf(number, src_base) /\ ~Mismatch(number, src_base)) =>
    IF Fits(NatValue(number, src_base)) THEN ret.tag = "Ok" ELSE ret = NumberOverflow

\* C4 happens: 2^128 in decimal after leading zeros, which overflows at the add
\* of its last digit
C4_Witness ==
  /\ call = "convert_base"
  /\ src_base = Dec
  /\ number = repeat("0", MaxZeros) \o DecOver
  /\ Fits(NatMulAdd(NatValue(DecFront, Dec), Dec, 0))
  /\ ret = NumberOverflow

NotSpace(c) == c # " "

\* str with its spaces removed
StripSpaces(str) == SelectSeq(str, NotSpace)

Max(a, b) == IF a >= b THEN a ELSE b

\* C5: for a digit string s and a group size g >= 1, group_digits(s, g) is s with
\* single spaces inserted: removing them gives back s, counted from the right
\* end every (g + 1)-th character is a space and no other is, the leftmost
\* character is no space (so the leftmost group has 1 to g characters), and
\* ceil(len(s)/g) - 1 spaces are inserted into a non-empty s; and
\* group_digits(s, 0) = s.
C5_Grouping ==
  LET out == ret.val
      n == Len(number)
      g == grouping
  IN  call = "group_digits" =>
        /\ ret.tag = "Ok"
        /\ g = 0 => out = number
        /\ g >= 1 =>
             /\ StripSpaces(out) = number
             /\ \A k \in 1..Len(out) : (out[Len(out) + 1 - k] = " ") <=> (k % (g + 1) = 0)
             /\ out # <<>> => out[1] # " " /\ out[Len(out)] # " "
             /\ \A k \in 1..(Len(out) - 1) : ~(out[k] = " " /\ out[k + 1] = " ")
             /\ n >= 1 => Len(out) - n = (n + g - 1) \div g - 1
             /\ n <= g => out = number

\* C5 happens: seven digits in groups of three, the leftmost group of one digit
C5_Witness ==
  /\ call = "group_digits"
  /\ number = <<"1", "2", "3", "4", "5", "6", "7">>
  /\ grouping = 3
  /\ ret = Ok(<<"1", " ", "2", "3", "4", " ", "5", "6", "7">>)

\* C6: pad_width(s, w) has length max(len(s), w), ends with s, and every character
\* before that suffix is '0' (s unchanged when len(s) >= w); and padding the
\* result again with the same width returns it unchanged.
C6_Padding ==
  LET out == ret.val
      n == Len(number)
  IN  call = "pad_width" =>
        /\ ret.tag = "Ok"
        /\ Len(out) = Max(n, width)
        /\ SubSeq(out, Len(out) - n + 1, Len(out)) = number
        /\ \A k \in 1..(Len(out) - n) : out[k] = "0"
        /\ n >= width => out = number
        /\ origin.some => out = number

\* C6 happens: a string shorter than the width was padded, and the result was
\* padded again
C6_Witness ==
  /\ call = "pad_width"
  /\ origin.some
  /\ origin.val = <<"4", "2">>
  /\ width = 4
  /\ number = <<"0", "0", "4", "2">>
  /\ ret = Ok(number)

\* C7: run converts, then pads, then groups: on success it returns Ok and prints
\* the one line group_digits(pad_width(converted, width), grouping), which holds
\* max(len(converted), width) digits, the padding zeros included in the groups,
\* and whose digits are the converted number after the zeros; when convert_base
\* fails, run returns that failure and prints nothing.
C7_RunPipeline ==
  LET converted == convert_base(number, src_base, tgt_base, overflow_checks) IN
  call = "run" =>
    IF converted.tag = "Ok"
    THEN /\ ret = Ok(<<>>)
         /\ Len(stdout) = 1
         /\ stdout[1] = group_digits(pad_width(converted.val, width), grouping)
         /\ Len(StripSpaces(stdout[1])) = Max(Len(converted.val), width)
         /\ StripSpaces(stdout[1])
              = repeat("0", Max(Len(converted.val), width) - Len(converted.val))
                  \o converted.val
         /\ grouping >= 1 =>
              \A k \in 1..Len(stdout[1]) :
                (stdout[1][Len(stdout[1]) + 1 - k] = " ") <=> (k % (grouping + 1) = 0)
    ELSE ret = converted /\ stdout = <<>>

\* C7 happens: 0xFF from hexadecimal to decimal, width 4, no grouping, prints 0255
C7_Witness ==
  /\ call = "run"
  /\ number = <<"0", "x", "F", "F">>
  /\ src_base = Hex
  /\ tgt_base = Dec
  /\ width = 4
  /\ grouping = 0
  /\ ret = Ok(<<>>)
  /\ stdout = << <<"0", "2", "5", "5">> >>

\* C8: a prefix of the declared source radix followed by no digit at all makes
\* convert_base fail with an error; it is not converted to "0".
C8_PrefixOnlyFails ==
  (/\ call = "convert_base"
   /\ Len(number) = 2
   /\ PrefixRadix(number) = src_base)
  => IsError(ret)

\* C9: convert_base returns Ok or one of the three errors and never faults, and
\* the leftmost character that is neither a digit nor a letter a-f or A-F, met
\* after legal digits that do not overflow, is rejected with InvalidDigit
\* carrying it.
C9_NoFaultNoWraparound ==
  LET str == DigitsOf(number, src_base)
      bad == FirstBad(str, Hex)
  IN  call = "convert_base" =>
        /\ ret.tag = "Ok" \/ IsError(ret)
        /\ (/\ ~Mismatch(number, src_base)
            /\ bad > 0
            /\ AllDigitsOf(LegalFront(str, Hex), src_base)
            /\ Fits(NatValue(LegalFront(str, Hex), src_base)))
           => ret = InvalidDigit(str[bad])

\* C10: the canonical representation s of a value of at most 2^128 - 1 in radix
\* r1 converts to radix r2 without error, and the result converts back to r1
\* as exactly s.
C10_RoundTrip ==
  call = "convert_base" =>
    /\ (/\ ~origin.some
        /\ IsCanonical(number, src_base)
        /\ Fits(NatValue(number, src_base)))
       => ret.tag = "Ok"
    /\ (origin.some /\ IsCanonical(origin.val, tgt_base)) => ret = Ok(origin.val)

\* C10 happens: 2^128 - 1 from hexadecimal to decimal and back
C10_Witness ==
  /\ call = "convert_base"
  /\ origin = Some(HexMax)
  /\ number = DecMax
  /\ src_base = Dec
  /\ tgt_base = Hex
  /\ ret = Ok(HexMax)

====
